---- MODULE Spec2Model ----
(***************************************************************************)
(* Model of WCServer (src/src/server.ts): the lobby registry, the lobby    *)
(* manage queue drained by the lobbyManageLoop interval, the per-socket    *)
(* admission handshake (accept / open-event callback) and WCClient.remove. *)
(*                                                                         *)
(* One action is one macrotask of the Node event loop together with the    *)
(* promise continuations (microtasks) it releases: the continuation of     *)
(* `await this.joinLobby(...)` in accept() runs in the same step as the    *)
(* interval callback that calls the request's cb.                          *)
(***************************************************************************)
EXTENDS Integers, Sequences, FiniteSets, TLC

\* ---------------------------------------------------------------- bounds
\* operations of the outside world in one run: connections, callback
\* invocations, requests submitted by other callers, createLobby calls
MaxOps == 4
\* requests waiting in the queue at one time
MaxQueue == 3

\* ------------------------------------------------------------ vocabulary
RandomIds == {"a3f09c11d27e"}
LobbyIds == {"main"} \cup RandomIds
Actions == {"add-client", "remove", "query"}
lobbyRemoveMessage == "This lobby is no longer available"
CustomPayload == "ERR::Banned"
NoPayload == "undefined"
NoClient == <<0, 0>>
NoLobbyId == "undefined"
Conns == 1..MaxOps

VARIABLES
    config,            \* this.config (useSingleLobby, acceptAllConnections)
    lobbies,           \* this.lobbies: lobby id -> WCLobby
    lobbyManageQueue,  \* this.lobbyManageQueue
    intervals,         \* setInterval handles started by _createLobby, still running
    clients,           \* WCClient objects constructed by accept(): id -> record
    sockets,           \* per connection: ws.send / setTimeout log, pending close timers, closed
    nConns,            \* number of connections the /socket route has handled
    opened,            \* per connection: the "open" event has been emitted
    cbCalls,           \* per connection: invocations of ev.callback so far
    extCalls,          \* results handed to completion callbacks of external callers
    ref,               \* history: registry with every request applied when it was submitted
    raced,             \* history: a lobby was created while a request for its id was queued
    nOps,              \* history: operations of the outside world so far
    nCreate,           \* history: createLobby calls so far
    errors,            \* history: errors createLobby has thrown to its caller
    nDrained,          \* history: requests the interval callback has taken off the queue
    uncaught           \* an exception has left the interval callback: the process is gone

vars == <<config, lobbies, lobbyManageQueue, intervals, clients, sockets, nConns,
          opened, cbCalls, extCalls, ref, raced, nOps, nCreate, errors, nDrained, uncaught>>

\* --------------------------------------------------------------- helpers
\* LobbyManageQueueItem; data absent is hasData = FALSE; cb is "none", "join"
\* (the closure joinLobby passes), "ext" (a caller's own completion callback)
\* or "extThrows" (a caller's callback that throws when it is called)
Item(a, l, c, cb) == [action |-> a, hasData |-> TRUE, lobbyId |-> l, client |-> c, cb |-> cb]
ItemNoData(a, cb) == [action |-> a, hasData |-> FALSE, lobbyId |-> NoLobbyId,
                      client |-> NoClient, cb |-> cb]

\* ws.send(frame) on connection w: the frame is the list of fields that
\* join("::") glues together; by is the client object whose accept() closure
\* made the call (NoClient for the route handler itself)
Send(socks, w, frame, by) ==
    [socks EXCEPT ![w].log = Append(@, [ev |-> "send", frame |-> frame, by |-> by])]

\* setTimeout(() => ws.close(), delay)
ScheduleClose(socks, w, by) ==
    [socks EXCEPT ![w].log = Append(@, [ev |-> "setTimeout", frame |-> <<>>, by |-> by]),
                  ![w].closeTimers = @ + 1]

\* WCClient.remove(reason) of client c
ClientRemove(socks, c, reason) ==
    ScheduleClose(Send(socks, clients[c].ws, <<"CLS", reason>>, c), clients[c].ws, c)

RECURSIVE RemoveAll(_, _, _)
\* for (const c of lobby.clients) c.remove(reason)
RemoveAll(socks, cs, reason) ==
    IF cs = <<>> THEN socks
    ELSE RemoveAll(ClientRemove(socks, Head(cs), reason), Tail(cs), reason)

\* sync() in the accept() of client c:  SYN::<3 random bytes, hex>::<server time>
Sync(socks, w, c) == Send(socks, w, <<"SYN", "syncPacketId", "serverTime">>, c)

\* variant: the rejection branch sends its frame and leaves the socket open
Reject_noClose(socks, w, payload) ==
    Send(socks, w, IF payload = NoPayload THEN <<"ERR", "Access Denied">>
                   ELSE <<payload>>, NoClient)

\* the rejection branch of ev.callback
Reject(socks, w, payload) ==
    ScheduleClose(
        Send(socks, w, IF payload = NoPayload THEN <<"ERR", "Access Denied">>
                       ELSE <<payload>>, NoClient),
        w, NoClient)

\* this.lobbies[lobbyId] = {id, clients: [], events: [], runtime: setInterval(...)}
NewLobby(lid, handle) == [id |-> lid, clients |-> <<>>, events |-> <<>>, runtime |-> handle]
PutLobby(reg, lid, lobby) ==
    [k \in DOMAIN reg \cup {lid} |-> IF k = lid THEN lobby ELSE reg[k]]
DeleteLobby(reg, lid) == [k \in DOMAIN reg \ {lid} |-> reg[k]]

\* listLobbies(): the registry's values in key order
ListLobbies == {lobbies[k] : k \in DOMAIN lobbies}

\* variant: the add-client case creates the lobby it does not find
AddClientApply_upsert(reg, item) ==
    IF ~item.hasData \/ item.client = NoClient THEN reg
    ELSE IF item.lobbyId \notin DOMAIN reg
         THEN PutLobby(reg, item.lobbyId,
                       [id |-> item.lobbyId, clients |-> <<item.client>>,
                        events |-> <<>>, runtime |-> 0])
    ELSE [reg EXCEPT ![item.lobbyId].clients = Append(@, item.client)]

\* variant: the add-client case never pushes the client
AddClientApply_noPush(reg, item) == reg

\* add-client case of the switch, registry part
AddClientApply(reg, item) ==
    IF ~item.hasData \/ item.client = NoClient THEN reg
    ELSE IF item.lobbyId \notin DOMAIN reg THEN reg
    ELSE [reg EXCEPT ![item.lobbyId].clients = Append(@, item.client)]

\* variant: the remove case empties the lobby's list and keeps the lobby
RemoveApply_evict(reg, item) ==
    IF ~item.hasData \/ item.lobbyId = NoLobbyId THEN reg
    ELSE IF item.lobbyId \notin DOMAIN reg THEN reg
    ELSE [reg EXCEPT ![item.lobbyId].clients = <<>>]

\* remove case of the switch, registry part
RemoveApply(reg, item) ==
    IF ~item.hasData \/ item.lobbyId = NoLobbyId THEN reg
    ELSE IF item.lobbyId \notin DOMAIN reg THEN reg
    ELSE DeleteLobby(reg, item.lobbyId)

\* the registry after the switch of the interval callback has handled item
ApplyItem(reg, item) ==
    CASE item.action = "query" -> reg
      [] item.action = "add-client" -> AddClientApply(reg, item)
      [] item.action = "remove" -> RemoveApply(reg, item)

\* whether the switch gets past its early returns for item
Applies(reg, item) ==
    CASE item.action = "query" -> item.hasData /\ item.lobbyId # NoLobbyId
      [] item.action = "add-client" ->
            item.hasData /\ item.client # NoClient /\ item.lobbyId \in DOMAIN reg
      [] item.action = "remove" ->
            item.hasData /\ item.lobbyId # NoLobbyId /\ item.lobbyId \in DOMAIN reg

\* variant: pop() where the code has shift()
Shift_pop(q) == [item |-> q[Len(q)], rest |-> SubSeq(q, 1, Len(q) - 1)]

\* this.lobbyManageQueue.shift(): the item taken and the queue left
Shift(q) == [item |-> Head(q), rest |-> Tail(q)]

\* variant: createLobby's guard tests the flag the wrong way round
CreateLobbyRefused_inverted == ~config.useSingleLobby

\* createLobby's guard
CreateLobbyRefused == config.useSingleLobby

\* ------------------------------------------------------------------ Init
\* the constructor: empty registry and queue; _createLobby("main") when
\* useSingleLobby
Init ==
    /\ config \in [useSingleLobby : BOOLEAN, acceptAllConnections : BOOLEAN]
    /\ lobbies = IF config.useSingleLobby
                 THEN [k \in {"main"} |-> NewLobby("main", 1)]
                 ELSE [k \in {} |-> NewLobby("main", 1)]
    /\ intervals = IF config.useSingleLobby
                   THEN {[handle |-> 1, lobbyId |-> "main"]} ELSE {}
    /\ lobbyManageQueue = <<>>
    /\ clients = [c \in {} |-> [lastSynchronised |-> -1, ws |-> 0, promise |-> "none"]]
    /\ sockets = [w \in Conns |-> [log |-> <<>>, closeTimers |-> 0, closed |-> FALSE]]
    /\ nConns = 0
    /\ opened = [w \in Conns |-> FALSE]
    /\ cbCalls = [w \in Conns |-> 0]
    /\ extCalls = <<>>
    /\ ref = lobbies
    /\ raced = FALSE
    /\ nOps = 0
    /\ nCreate = 0
    /\ errors = 0
    /\ nDrained = 0
    /\ uncaught = FALSE

\* --------------------------------------------------------------- actions
\* variant: unshift() where the code has push()
addLobbyQueueAction_unshift(q, item) == <<item>> \o q

\* addLobbyQueueAction(action, data, cb)
addLobbyQueueAction(q, item) == Append(q, item)

\* a queued request names lobby lid
Pending(lid) == \E i \in 1..Len(lobbyManageQueue) : lobbyManageQueue[i].lobbyId = lid

NextHandle == Cardinality(intervals) + 1

\* the client object accept() builds on connection w
NewClientId(w) == <<w, Cardinality({c \in DOMAIN clients : clients[c].ws = w}) + 1>>
PutClient(c, w, p) ==
    [k \in DOMAIN clients \cup {c} |->
        IF k = c THEN [lastSynchronised |-> -1, ws |-> w, promise |-> p] ELSE clients[k]]

\* accept() runs to its end without suspending: the branch with no joinLobby
AcceptCompletes == ~config.useSingleLobby /\ DOMAIN lobbies # {}

\* variant: the lobby accept() has just created is not in the registry
JoinLobby_lostLobby(w, c, lid, reg, refReg) ==
    LET item == Item("add-client", lid, c, "join") IN
    /\ Len(lobbyManageQueue) < MaxQueue
    /\ clients' = PutClient(c, w, "pending")
    /\ sockets' = Send(sockets, w, <<"LOB", "JOINING", lid>>, c)
    /\ lobbyManageQueue' = addLobbyQueueAction(lobbyManageQueue, item)
    /\ lobbies' = lobbies
    /\ ref' = ApplyItem(ref, item)

\* joinLobby(lid, c) up to the point where its promise is pending
JoinLobby(w, c, lid, reg, refReg) ==
    LET item == Item("add-client", lid, c, "join") IN
    /\ Len(lobbyManageQueue) < MaxQueue
    /\ clients' = PutClient(c, w, "pending")
    /\ sockets' = Send(sockets, w, <<"LOB", "JOINING", lid>>, c)
    /\ lobbyManageQueue' = addLobbyQueueAction(lobbyManageQueue, item)
    /\ lobbies' = reg
    /\ ref' = ApplyItem(refReg, item)

\* variant: the branch left as a TODO joins the client to a lobby that exists
AcceptNoJoin_joinsExisting(w, c) ==
    /\ JoinLobby(w, c, CHOOSE l \in DOMAIN lobbies : TRUE, lobbies, ref)
    /\ UNCHANGED <<intervals, raced>>

\* accept() when other lobbies exist ("TODO: Negotiate lobby to join"), then sync()
AcceptNoJoin(w, c) ==
    /\ clients' = PutClient(c, w, "none")
    /\ sockets' = Sync(sockets, w, c)
    /\ UNCHANGED <<lobbies, lobbyManageQueue, intervals, ref, raced>>

\* accept() on connection w, to its first suspension or its end
Accept(w) ==
    LET c == NewClientId(w) IN
    IF config.useSingleLobby THEN
        /\ JoinLobby(w, c, "main", lobbies, ref)
        /\ UNCHANGED <<intervals, raced>>
    ELSE IF DOMAIN lobbies = {} THEN
        \E lid \in RandomIds :
            LET lobby == NewLobby(lid, NextHandle) IN
            /\ JoinLobby(w, c, lid, PutLobby(lobbies, lid, lobby), PutLobby(ref, lid, lobby))
            /\ intervals' = intervals \cup {[handle |-> NextHandle, lobbyId |-> lid]}
            /\ raced' = (raced \/ Pending(lid))
    ELSE
        AcceptNoJoin(w, c)

\* router.ws("/socket") handler for a new connection
Connect ==
    /\ ~uncaught
    /\ nOps < MaxOps
    /\ nOps' = nOps + 1
    /\ LET w == nConns + 1 IN
        /\ nConns' = w
        /\ IF config.acceptAllConnections
           THEN /\ Accept(w)
                /\ opened' = [opened EXCEPT ![w] = AcceptCompletes]
           ELSE /\ opened' = [opened EXCEPT ![w] = TRUE]
                /\ UNCHANGED <<lobbies, lobbyManageQueue, intervals, clients, sockets,
                               ref, raced>>
    /\ UNCHANGED <<config, cbCalls, extCalls, nCreate, errors, nDrained, uncaught>>

\* ev.callback(shouldAccept, rejectionPayload) invoked by an "open" listener
Callback(w, shouldAccept, payload) ==
    /\ ~uncaught
    /\ w <= nConns
    /\ opened[w]
    /\ nOps < MaxOps
    /\ nOps' = nOps + 1
    /\ cbCalls' = [cbCalls EXCEPT ![w] = @ + 1]
    /\ IF config.acceptAllConnections THEN
            UNCHANGED <<lobbies, lobbyManageQueue, intervals, clients, sockets, ref, raced>>
       ELSE IF ~shouldAccept THEN
            /\ sockets' = Reject(sockets, w, payload)
            /\ UNCHANGED <<lobbies, lobbyManageQueue, intervals, clients, ref, raced>>
       ELSE
            Accept(w)
    /\ UNCHANGED <<config, nConns, opened, extCalls, nCreate, errors, nDrained, uncaught>>

\* a request submitted by a caller other than joinLobby
ExternalItems ==
    {Item("remove", l, NoClient, "none") : l \in LobbyIds}
    \cup {Item("query", l, NoClient, cb) : l \in LobbyIds, cb \in {"ext", "extThrows"}}
    \cup {Item("add-client", l, c, cb) :
             l \in LobbyIds, c \in DOMAIN clients, cb \in {"none", "ext", "extThrows"}}
    \cup {ItemNoData(a, "none") : a \in Actions}

Enqueue(item) ==
    /\ ~uncaught
    /\ nOps < MaxOps
    /\ Len(lobbyManageQueue) < MaxQueue
    /\ nOps' = nOps + 1
    /\ lobbyManageQueue' = addLobbyQueueAction(lobbyManageQueue, item)
    /\ ref' = ApplyItem(ref, item)
    /\ UNCHANGED <<config, lobbies, intervals, clients, sockets, nConns, opened,
                   cbCalls, extCalls, raced, nCreate, errors, nDrained, uncaught>>

\* variant: joinLobby's callback resolves before it sends LOB::JOINED
CallCb_syncFirst(item, socks) ==
    IF item.cb = "join"
    THEN Send(Sync(socks, clients[item.client].ws, item.client),
              clients[item.client].ws, <<"LOB", "JOINED", item.lobbyId>>, item.client)
    ELSE socks

\* what the completion callback of item does when the switch calls it
CallCb(item, socks) ==
    IF item.cb = "join"
    THEN Sync(Send(socks, clients[item.client].ws, <<"LOB", "JOINED", item.lobbyId>>,
                   item.client),
              clients[item.client].ws, item.client)
    ELSE socks

\* the sockets after the switch has handled item
DrainSockets(item) ==
    CASE item.action = "query" -> sockets
      [] item.action = "add-client" ->
            IF Applies(lobbies, item) THEN CallCb(item, sockets) ELSE sockets
      [] item.action = "remove" ->
            IF Applies(lobbies, item)
            THEN RemoveAll(sockets, lobbies[item.lobbyId].clients, lobbyRemoveMessage)
            ELSE sockets

\* the completion callback of item throws
CbThrows(item) == item.cb = "extThrows"

\* the lobbyManageLoop interval callback; it has no try/catch, so what a
\* completion callback throws leaves it uncaught
Tick ==
    /\ ~uncaught
    /\ IF Len(lobbyManageQueue) = 0 THEN
           UNCHANGED vars
       ELSE
           LET item == Shift(lobbyManageQueue).item
               called == Applies(lobbies, item) /\ item.cb # "none"
           IN
           /\ lobbyManageQueue' = Shift(lobbyManageQueue).rest
           /\ lobbies' = ApplyItem(lobbies, item)
           /\ sockets' = DrainSockets(item)
           /\ IF called /\ item.cb = "join"
              THEN /\ clients' = [clients EXCEPT ![item.client].promise = "resolved"]
                   /\ opened' = [opened EXCEPT ![clients[item.client].ws] = TRUE]
              ELSE UNCHANGED <<clients, opened>>
           /\ IF called /\ item.cb \in {"ext", "extThrows"}
              THEN extCalls' = Append(extCalls,
                       IF item.lobbyId \in DOMAIN lobbies THEN item.lobbyId ELSE "undefined")
              ELSE UNCHANGED extCalls
           /\ nDrained' = nDrained + 1
           /\ uncaught' = (called /\ CbThrows(item))
           /\ UNCHANGED <<config, intervals, nConns, cbCalls, ref, raced, nOps, nCreate,
                          errors>>

\* createLobby(lobbyId)
createLobby(lid) ==
    /\ ~uncaught
    /\ nOps < MaxOps
    /\ nOps' = nOps + 1
    /\ nCreate' = nCreate + 1
    /\ IF CreateLobbyRefused THEN
            /\ errors' = errors + 1
            /\ UNCHANGED <<lobbies, intervals, ref, raced>>
       ELSE
            LET lobby == NewLobby(lid, NextHandle) IN
            /\ lobbies' = PutLobby(lobbies, lid, lobby)
            /\ intervals' = intervals \cup {[handle |-> NextHandle, lobbyId |-> lid]}
            /\ ref' = PutLobby(ref, lid, lobby)
            /\ raced' = (raced \/ Pending(lid))
            /\ UNCHANGED errors
    /\ UNCHANGED <<config, lobbyManageQueue, clients, sockets, nConns, opened,
                   cbCalls, extCalls, nDrained, uncaught>>

\* a timeout set by remove() or by a rejection fires: ws.close()
CloseTimer(w) ==
    /\ ~uncaught
    /\ sockets[w].closeTimers > 0
    /\ sockets' = [sockets EXCEPT ![w].closeTimers = @ - 1, ![w].closed = TRUE]
    /\ UNCHANGED <<config, lobbies, lobbyManageQueue, intervals, clients, nConns,
                   opened, cbCalls, extCalls, ref, raced, nOps, nCreate, errors,
                   nDrained, uncaught>>

Next ==
    \/ Connect
    \/ \E w \in Conns, a \in BOOLEAN, p \in {NoPayload, CustomPayload} :
            (a => p = NoPayload) /\ Callback(w, a, p)
    \/ \E item \in ExternalItems : Enqueue(item)
    \/ Tick
    \/ \E lid \in LobbyIds : createLobby(lid)
    \/ \E w \in Conns : CloseTimer(w)

Spec == Init /\ [][Next]_vars

\* setInterval keeps calling the callback every 100 ms while the process lives
FairSpec == Spec /\ WF_vars(Tick)

TypeOK ==
    /\ DOMAIN lobbies \subseteq LobbyIds
    /\ Len(lobbyManageQueue) <= MaxQueue

\* ------------------------------------------------------- reading the state
\* the frames sent on connection w, in order
Frames(w) ==
    LET sends == SelectSeq(sockets[w].log, LAMBDA e : e.ev = "send")
    IN [i \in 1..Len(sends) |-> sends[i].frame]

Count(seq, Test(_)) == Cardinality({i \in 1..Len(seq) : Test(seq[i])})

\* CLS frames sent by c.remove, and closures c.remove has scheduled
ClsBy(socks, c) ==
    Count(socks[clients[c].ws].log,
          LAMBDA e : e.ev = "send" /\ e.by = c /\ e.frame[1] = "CLS")
ClosuresBy(socks, c) ==
    Count(socks[clients[c].ws].log, LAMBDA e : e.ev = "setTimeout" /\ e.by = c)
SynBy(socks, c) ==
    Count(socks[clients[c].ws].log,
          LAMBDA e : e.ev = "send" /\ e.by = c /\ e.frame[1] = "SYN")

\* the add-client request joinLobby enqueued for c is still queued
JoinQueued(c) ==
    \E i \in 1..Len(lobbyManageQueue) :
        lobbyManageQueue[i].client = c /\ lobbyManageQueue[i].cb = "join"

\* the step is a tick of the interval that takes a request off the queue
Drains ==
    /\ Len(lobbyManageQueue) > 0
    /\ lobbyManageQueue' = Tail(lobbyManageQueue)

\* positions of the registry, as <<lobby id, index>>, held by a client of w
Memberships(w) ==
    {p \in UNION {{<<l, i>> : i \in 1..Len(lobbies[l].clients)} : l \in DOMAIN lobbies} :
        clients[lobbies[p[1]].clients[p[2]]].ws = w}

\* ------------------------------------------------------------------ claims
\* C1: whenever the queue is empty, the registry (its lobby ids and every
\* lobby's clients list, in order) equals the registry obtained by applying
\* each request on its own at the moment it was submitted, in submission
\* order; lobby creation, which bypasses the queue, is applied to both at
\* once, and runs in which a lobby is created while a request for that id
\* is still queued are outside the statement.
C1_OrderingInvariant ==
    (lobbyManageQueue = <<>> /\ ~raced) => lobbies = ref

\* an add-client and a later remove of the same lobby have both drained
C1_Witness ==
    /\ lobbyManageQueue = <<>>
    /\ ~raced
    /\ lobbies = ref
    /\ \E c \in DOMAIN clients : ClsBy(sockets, c) = 1

\* C2: when a tick takes a remove of a lobby that is in the registry, the
\* lobby is gone afterwards and every client on its list has then been sent
\* exactly one CLS frame carrying lobbyRemoveMessage by its remove().
C2_RemoveNotifiesEachMemberOnce ==
    [][(Drains /\ Head(lobbyManageQueue).action = "remove"
               /\ Head(lobbyManageQueue).lobbyId \in DOMAIN lobbies)
          => LET lid == Head(lobbyManageQueue).lobbyId
                 members == lobbies[lid].clients
             IN /\ lid \notin DOMAIN lobbies'
                /\ \A i \in 1..Len(members) :
                      /\ ClsBy(sockets', members[i]) = 1
                      /\ \E k \in 1..Len(sockets'[clients[members[i]].ws].log) :
                            sockets'[clients[members[i]].ws].log[k] =
                              [ev |-> "send", frame |-> <<"CLS", lobbyRemoveMessage>>,
                               by |-> members[i]]]_vars

\* C3: a tick that takes an add-client whose lobby id is not in the registry
\* throws nothing, leaves the registry as it was, sends nothing, and its
\* client is a member of no lobby afterwards unless it was one before.
C3_AddToAbsentLobbyDropped ==
    [][(Drains /\ Head(lobbyManageQueue).action = "add-client"
               /\ Head(lobbyManageQueue).lobbyId \notin DOMAIN lobbies)
          => /\ lobbies' = lobbies
             /\ sockets' = sockets
             /\ errors' = errors
             /\ uncaught' = uncaught
             /\ extCalls' = extCalls]_vars

\* the add-client of an admitted client was taken off the queue while its
\* lobby was gone: its promise is pending and nothing is queued for it
C3_Witness ==
    \E c \in DOMAIN clients :
        /\ clients[c].promise = "pending"
        /\ ~JoinQueued(c)
        /\ \A l \in DOMAIN lobbies :
              \A i \in 1..Len(lobbies[l].clients) : lobbies[l].clients[i] # c

\* C4: remove(reason) is idempotent: whatever number of times a client's
\* remove has been called, it has sent at most one CLS frame and scheduled at
\* most one closure of its transport.
C4_RemoveIdempotent ==
    \A c \in DOMAIN clients :
        ClsBy(sockets, c) <= 1 /\ ClosuresBy(sockets, c) <= 1

\* C5: with acceptAllConnections off, an invocation of a connection's
\* callback after its first sends no frame, builds no client, enqueues no
\* request and schedules no closure.
C5_CallbackOneShot ==
    [][\A w \in Conns :
          (~config.acceptAllConnections /\ cbCalls[w] >= 1 /\ cbCalls'[w] = cbCalls[w] + 1)
          => /\ sockets' = sockets
             /\ clients' = clients
             /\ lobbyManageQueue' = lobbyManageQueue]_vars

\* C6: no connection has more than one place in the registry: its client is
\* not listed twice in a lobby and not listed in two lobbies.
C6_NoDuplicateMembership ==
    \A w \in Conns : Cardinality(Memberships(w)) <= 1

\* C7: once the add-client that joinLobby enqueued for an admitted client has
\* been taken off the queue, applied or dropped, the accept() of that client
\* has sent its SYN frame.
C7_SynAfterEnqueue ==
    \A c \in DOMAIN clients :
        (clients[c].promise # "none" /\ ~JoinQueued(c)) => SynBy(sockets, c) >= 1

\* the frames of end-to-end scenario 1, in order
Scenario1Frames ==
    <<<<"LOB", "JOINING", "main">>, <<"LOB", "JOINED", "main">>,
      <<"SYN", "syncPacketId", "serverTime">>>>

\* every connection's frames follow scenario 1, then only CLS frames
C8_FrameOrder ==
    \A w \in Conns :
        \A i \in 1..Len(Frames(w)) :
            IF i <= 3 THEN Frames(w)[i] = Scenario1Frames[i]
            ELSE Frames(w)[i][1] = "CLS"

\* C8: with useSingleLobby and acceptAllConnections, the frames of a
\* connection are LOB::JOINING::main, LOB::JOINED::main, SYN in that order
\* (followed by nothing but CLS frames); LOB::JOINED::main is sent in a step
\* after which the client is on main's list; and the tick that applies the
\* first add-client to the registry as it was at startup leaves listLobbies
\* with one lobby that has one client.
C8_SingleLobbyAutoAccept ==
    [][(config.useSingleLobby /\ config.acceptAllConnections)
          => /\ C8_FrameOrder'
             /\ \A w \in Conns :
                   (Len(Frames(w)) < 2 /\ Len(Frames(w)') >= 2)
                   => /\ "main" \in DOMAIN lobbies'
                      /\ \E i \in 1..Len(lobbies'["main"].clients) :
                            clients[lobbies'["main"].clients[i]].ws = w
             /\ (Drains /\ Head(lobbyManageQueue).cb = "join"
                        /\ lobbies = [k \in {"main"} |-> NewLobby("main", 1)])
                   => /\ Cardinality(ListLobbies') = 1
                      /\ \A l \in ListLobbies' :
                            l.id = "main" /\ l.clients = <<Head(lobbyManageQueue).client>>]_vars

\* the first connection has been drained: its three frames are out and
\* listLobbies has the single lobby main with that one client
C8_Witness ==
    /\ config.useSingleLobby
    /\ config.acceptAllConnections
    /\ Frames(1) = Scenario1Frames
    /\ Cardinality(ListLobbies) = 1
    /\ \A l \in ListLobbies : Len(l.clients) = 1

\* C9: with acceptAllConnections off, callback(false) without a payload
\* sends ERR::Access Denied, then schedules the closure of the transport,
\* builds no client, enqueues nothing and leaves the registry alone.
C9_RejectDefault ==
    [][\A w \in Conns :
          (~config.acceptAllConnections /\ Callback(w, FALSE, NoPayload))
          => /\ sockets'[w].log = sockets[w].log \o
                   <<[ev |-> "send", frame |-> <<"ERR", "Access Denied">>, by |-> NoClient],
                     [ev |-> "setTimeout", frame |-> <<>>, by |-> NoClient]>>
             /\ sockets'[w].closeTimers = sockets[w].closeTimers + 1
             /\ clients' = clients
             /\ lobbyManageQueue' = lobbyManageQueue
             /\ lobbies' = lobbies]_vars

\* a pending connection was rejected without a payload
C9_Witness ==
    /\ ~config.acceptAllConnections
    /\ \E w \in Conns :
          /\ cbCalls[w] = 1
          /\ Frames(w) = <<<<"ERR", "Access Denied">>>>
          /\ sockets[w].closeTimers = 1
    /\ DOMAIN clients = {}
    /\ lobbyManageQueue = <<>>

\* C10: with useSingleLobby set, every createLobby call throws, and the
\* registry and the queue are after the call what they were before it.
C10_CreateLobbyRefused ==
    [][(config.useSingleLobby /\ nCreate' = nCreate + 1)
          => /\ errors' = errors + 1
             /\ lobbies' = lobbies
             /\ lobbyManageQueue' = lobbyManageQueue
             /\ intervals' = intervals]_vars

\* createLobby was called in single-lobby mode while "main" had a member
C10_Witness ==
    /\ config.useSingleLobby
    /\ nCreate > 0
    /\ errors = nCreate
    /\ "main" \in DOMAIN lobbies
    /\ lobbies["main"].clients # <<>>

\* client c is on the clients list of lobby l of registry reg
MemberOf(reg, l, c) ==
    l \in DOMAIN reg /\ \E i \in 1..Len(reg[l].clients) : reg[l].clients[i] = c

C12_StrictFifo ==
    [][\/ /\ lobbyManageQueue' = lobbyManageQueue
          /\ \A l \in DOMAIN lobbies : l \in DOMAIN lobbies' /\
                (lobbies'[l] = lobbies[l] \/ lobbies'[l].clients = <<>>)
       \/ /\ Len(lobbyManageQueue') = Len(lobbyManageQueue) + 1
          /\ SubSeq(lobbyManageQueue', 1, Len(lobbyManageQueue)) = lobbyManageQueue
          /\ \A l \in DOMAIN lobbies : l \in DOMAIN lobbies' /\ lobbies'[l] = lobbies[l]
       \/ /\ Drains
          /\ lobbies' = ApplyItem(lobbies, Head(lobbyManageQueue))]_vars

\* request A (a join) has been applied while request B, submitted after it,
\* is still at the head of the queue
C12_Witness ==
    /\ Len(lobbyManageQueue) = 2
    /\ lobbyManageQueue[1].action = "remove"
    /\ lobbyManageQueue[2].action = "query"
    /\ \E c \in DOMAIN clients :
          clients[c].promise = "resolved"
          /\ MemberOf(lobbies, lobbyManageQueue[1].lobbyId, c)

\* C13: with useSingleLobby off, an admission that finds the registry empty
\* leaves exactly one lobby in it and starts one lobby timer; and the tick
\* that takes that client's add-client leaves the lobby's list holding that
\* client and no other, whatever was admitted in between.  The random id is
\* taken not to be one a queued request already names (runs with raced set
\* are left out).
C13_FirstClientCreatesLobby ==
    [][(~config.useSingleLobby /\ ~raced')
          => /\ (DOMAIN lobbies = {} /\ DOMAIN clients' # DOMAIN clients)
                   => /\ Cardinality(DOMAIN lobbies') = 1
                      /\ Cardinality(intervals') = Cardinality(intervals) + 1
                      /\ \A l \in DOMAIN lobbies' : lobbies'[l].clients = <<>>
             /\ (Drains /\ Head(lobbyManageQueue).cb = "join")
                   => /\ Head(lobbyManageQueue).lobbyId \in DOMAIN lobbies'
                      /\ lobbies'[Head(lobbyManageQueue).lobbyId].clients =
                            <<Head(lobbyManageQueue).client>>]_vars

\* a second connection was admitted before the first one's add-client was
\* taken, and the lobby holds the first client alone
C13_Witness ==
    /\ ~config.useSingleLobby
    /\ ~raced
    /\ nConns = 2
    /\ Cardinality(DOMAIN clients) = 2
    /\ lobbyManageQueue = <<>>
    /\ \E l \in DOMAIN lobbies : lobbies[l].clients = <<<<1, 1>>>>
    /\ clients[<<2, 1>>].promise = "none"

\* C14: under fair firing of the drain tick no request starves: the k-th
\* request submitted, whatever its kind, target and payload, is eventually
\* taken off the queue by the interval callback.
C14_NoStarvation ==
    \A k \in 1..MaxOps :
        (nDrained + Len(lobbyManageQueue) >= k) ~> (nDrained >= k)

\* C15: every lobby timer still running belongs to a lobby that is in the
\* registry (it is that lobby's runtime handle).
C15_TimersCancelledOnRemoval ==
    \A t \in intervals :
        t.lobbyId \in DOMAIN lobbies /\ lobbies[t.lobbyId].runtime = t.handle

\* C16: a tick that takes a request carrying a caller's completion callback
\* and a payload invokes that callback once: with the lobby when it is in the
\* registry, with an absent value when it is not.
C16_CompletionAlwaysInvoked ==
    [][(Drains /\ Head(lobbyManageQueue).cb = "ext" /\ Head(lobbyManageQueue).hasData)
          => extCalls' = Append(extCalls,
                IF Head(lobbyManageQueue).lobbyId \in DOMAIN lobbies
                THEN Head(lobbyManageQueue).lobbyId ELSE "undefined")]_vars

\* C17: a createLobby call leaves every entry the registry already has as it
\* was: same clients, same events, same runtime handle.
C17_CreateOnlyAddsFreshKey ==
    [][(~config.useSingleLobby /\ nCreate' = nCreate + 1)
          => \A l \in DOMAIN lobbies :
                l \in DOMAIN lobbies' /\ lobbies'[l] = lobbies[l]]_vars

\* C18: a fault raised while a request is applied is absorbed by the
\* interval callback: no exception ever leaves it, so the loop goes on.
C18_FaultsAbsorbed ==
    ~uncaught

\* the list before is an initial part of the list after
IsPrefix(a, b) == Len(a) <= Len(b) /\ SubSeq(b, 1, Len(a)) = a

C20_NoNegotiationOnlySyn ==
    [][\A w \in Conns :
          (~config.useSingleLobby /\ DOMAIN lobbies # {}
              /\ NewClientId(w) \notin DOMAIN clients
              /\ NewClientId(w) \in DOMAIN clients')
          => /\ lobbies' = lobbies
             /\ lobbyManageQueue' = lobbyManageQueue
             /\ intervals' = intervals
             /\ sockets'[w].log = Append(sockets[w].log,
                    [ev |-> "send", frame |-> <<"SYN", "syncPacketId", "serverTime">>,
                     by |-> NewClientId(w)])
             /\ \A l \in DOMAIN lobbies' : ~MemberOf(lobbies', l, NewClientId(w))]_vars

\* the second connection found the first one's lobby: one SYN frame, no
\* membership, nothing queued for it
C20_Witness ==
    /\ ~config.useSingleLobby
    /\ nConns = 2
    /\ DOMAIN lobbies # {}
    /\ <<2, 1>> \in DOMAIN clients
    /\ Frames(2) = <<<<"SYN", "syncPacketId", "serverTime">>>>
    /\ ~JoinQueued(<<2, 1>>)
    /\ \A l \in DOMAIN lobbies : ~MemberOf(lobbies, l, <<2, 1>>)

====
